---- MODULE Spec2Model ----
(***************************************************************************)
(* SmartHub electric usage scripts: ElectricRawJSON.py,                    *)
(* ElectricRawDataInfluxDB.py and ElectricUsagewithPrices.py.              *)
(*                                                                         *)
(* One run is either the main() of one of the three scripts, or a direct   *)
(* call of save_to_json / write_to_influxdb of ElectricUsagewithPrices.py  *)
(* (its main() raises in load_config, so the two functions are exercised   *)
(* as functions).  Instants are seconds since the epoch, raw interval      *)
(* starts are epoch milliseconds, retention windows are whole days.        *)
(***************************************************************************)
EXTENDS Integers, Sequences, FiniteSets, TLC

\* ---------------------------------------------------------------- bounds
MaxTime == 2          \* record instants fall on days 0..MaxTime
MaxIncoming == 2      \* reads in one fetched payload
MaxExisting == 1      \* entries of a snapshot file found on disk
MaxRetain == 1        \* retention windows 0..MaxRetain days

\* ------------------------------------------------------------- constants
SecPerDay == 86400
price_per_kw == 2
None == -1            \* Python's None where a number is expected

Scripts == {"RawJSON", "InfluxDB", "Prices"}
Days == 0 .. MaxTime
Totals == {5, 7}

\* --------------------------------------------------------------- values
\* A 'Start Time' string: "canon" is the zero padded '%Y-%m-%d %H:%M:%S'
\* text strftime writes, "alt" another text strptime reads as the same
\* instant (no zero padding), "bad" a text strptime rejects, "absent" a
\* record with no 'Start Time' key at all.
Key(form, t) == [form |-> form, t |-> t]
NoKey == Key("absent", 0)
BadKey == Key("bad", 0)

Row(k, total, price) == [StartTime |-> k, Total |-> total, Price |-> price]

\* One interval read of the upstream payload.
Read(start, total) == [start |-> start, total |-> total]

RawReads == { Read(d * SecPerDay * 1000, x) : d \in Days, x \in Totals }
NoStartRead == Read(None, 5)

SeqsUpTo(S, n) == UNION { [1 .. k -> S] : k \in 0 .. n }

\* Entries a snapshot file may hold when the run starts.
FileRows ==
    { Row(Key("canon", d * SecPerDay), x, x * price_per_kw) : d \in Days, x \in Totals }
    \cup { Row(Key("alt", d * SecPerDay), 5, 5 * price_per_kw) : d \in Days }
    \cup { Row(BadKey, 5, 5 * price_per_kw), Row(NoKey, 5, 5 * price_per_kw) }

File(kind, entries) == [kind |-> kind, entries |-> entries]

\* "missing": no file; "unreadable": open(..., 'r') raises PermissionError;
\* "invalid": bytes that are not JSON (an empty or truncated file included);
\* "scalar": valid JSON that is not iterable (null, a number);
\* "list": a JSON list.
Files ==
    { File(k, <<>>) : k \in {"missing", "unreadable", "invalid", "scalar"} }
    \cup { File("list", s) : s \in SeqsUpTo(FileRows, MaxExisting) }

VARIABLES
    entry,              \* "main" | "save_to_json" | "write_to_influxdb"
    script,             \* the script whose code runs
    pc,                 \* position in the code
    err,                \* the exception that ended the run, or "none"
    log,                \* auth / fetch / decode outcomes and sink operations
    payload,            \* response.content: [valid, reads]
    data,               \* processed_data (Prices) or json_data (RawJSON)
    now,                \* datetime.now(pytz.utc), seconds
    retain_days,        \* config.retain_days / influxdb['retention_days']
    file,               \* the snapshot file on disk
    prior,              \* the snapshot file when the current call started
    prevOutcome,        \* how the previous call of save_to_json ended
    existing_data,
    existing_data_dict,
    filtered_data,
    points,
    influx              \* the batches handed to write_api.write

vars == << entry, script, pc, err, log, payload, data, now, retain_days, file,
           prior, prevOutcome, existing_data, existing_data_dict,
           filtered_data, points, influx >>

\* ------------------------------------------------------- pure functions
\* convert_timestamp: epoch milliseconds to the second-resolution text.
convert_timestamp(timestamp_ms) == Key("canon", timestamp_ms \div 1000)

\* parse_datetime: strptime, None on ValueError.
parse_datetime(date_str) ==
    IF date_str.form \in {"canon", "alt"} THEN date_str.t ELSE None

RECURSIVE process_data(_)
process_data(reads) ==
    IF reads = <<>> THEN <<>>
    ELSE LET read == Head(reads)
             start_time == IF read.start = None THEN 0 ELSE read.start
             total == IF read.total = None THEN 0 ELSE read.total
         IN  << Row(convert_timestamp(start_time), total, total * price_per_kw) >>
             \o process_data(Tail(reads))

HasKey(d, k) == \E i \in 1 .. Len(d) : d[i].StartTime = k
IndexOf(d, k) == CHOOSE i \in 1 .. Len(d) : d[i].StartTime = k

\* A dict assignment that keeps the value already stored at the key.
DictSetKeepFirst(d, e) ==
    IF HasKey(d, e.StartTime) THEN d ELSE Append(d, e)

\* A list append in place of the keyed assignment.
DictSetAppend(d, e) == Append(d, e)

\* existing_data_dict[entry['Start Time']] = entry on an insertion-ordered
\* dict, kept as the sequence of its values.
DictSet(d, e) ==
    IF HasKey(d, e.StartTime)
    THEN [d EXCEPT ![IndexOf(d, e.StartTime)] = e]
    ELSE Append(d, e)

RECURSIVE DictUpdate(_, _)
DictUpdate(d, rows) ==
    IF rows = <<>> THEN d
    ELSE DictUpdate(DictSet(d, Head(rows)), Tail(rows))

retention_cutoff(current_time, days) == current_time - days * SecPerDay

\* The comparison with > in place of >=.
RetainedStrict(e, cutoff) == parse_datetime(e.StartTime) > cutoff

\* Line 151: the condition of the list comprehension.
Retained(e, cutoff) == parse_datetime(e.StartTime) >= cutoff


\* The exceptions save_to_json's first try block catches (line 140).
CaughtOnLoad == {"missing", "invalid"}

\* The points ElectricRawDataInfluxDB.write_to_influxdb queues: the reads
\* whose instant is not before retention_period_end, in input order.
RECURSIVE raw_points(_, _)
raw_points(reads, retention_period_end) ==
    IF reads = <<>> THEN <<>>
    ELSE LET read == Head(reads)
             rest == raw_points(Tail(reads), retention_period_end)
         IN  IF read.start < retention_period_end * 1000
             THEN rest
             ELSE << [time |-> read.start, total_kwh |-> read.total] >> \o rest

\* The points ElectricUsagewithPrices.write_to_influxdb queues: one per row.
RECURSIVE priced_points(_)
priced_points(rows) ==
    IF rows = <<>> THEN <<>>
    ELSE << [time |-> Head(rows).StartTime, total_kwh |-> Head(rows).Total,
             price |-> Head(rows).Price] >> \o priced_points(Tail(rows))

\* main: where control goes after a step of the script.
NextStep(s, step) ==
    CASE step = "load_config" -> "auth"
      [] step = "auth" -> "fetch"
      [] step = "fetch" -> IF s = "InfluxDB" THEN "wi_decode" ELSE "decode"
      [] step = "decode" -> IF s = "RawJSON" THEN "rj_open" ELSE "sj_load"
      [] step = "wi_decode" -> "wi_points"

\* A main that reports the error and carries on.
OnResultIgnoringError(s, step, error) == NextStep(s, step)

\* `if error: print(...); return` and the except blocks that return.
OnResult(s, step, error) == IF error THEN "halted" ELSE NextStep(s, step)

\* ------------------------------------------------------------ the state
Nows == { MaxTime * SecPerDay }
Retains == 0 .. MaxRetain
NoPayload == [valid |-> FALSE, reads |-> <<>>]
Batches == SeqsUpTo(RawReads, MaxIncoming)
Payloads ==
    { NoPayload }
    \cup { [valid |-> TRUE, reads |-> r] :
             r \in SeqsUpTo(RawReads \cup {NoStartRead}, MaxIncoming) }
MainFiles == { File("missing", <<>>),
               File("list", << Row(Key("canon", 0), 5, 5 * price_per_kw) >>) }

Fresh ==
    /\ err = "none"
    /\ log = <<>>
    /\ prior = file
    /\ prevOutcome = "none"
    /\ existing_data = File("list", <<>>)
    /\ existing_data_dict = <<>>
    /\ filtered_data = <<>>
    /\ points = <<>>
    /\ influx = <<>>

InitMain ==
    /\ entry = "main"
    /\ script \in Scripts
    /\ pc = "load_config"
    /\ payload = NoPayload
    /\ data = <<>>
    /\ file \in MainFiles

InitSave ==
    /\ entry = "save_to_json"
    /\ script = "Prices"
    /\ pc = "sj_load"
    /\ \E r \in Batches : payload = [valid |-> TRUE, reads |-> r]
    /\ data = process_data(payload.reads)
    /\ file \in Files

InitWrite ==
    /\ entry = "write_to_influxdb"
    /\ script = "Prices"
    /\ pc = "wp_write"
    /\ \E r \in Batches : payload = [valid |-> TRUE, reads |-> r]
    /\ data = process_data(payload.reads)
    /\ file = File("missing", <<>>)

Init ==
    /\ now \in Nows
    /\ retain_days \in Retains
    /\ (InitMain \/ InitSave \/ InitWrite)
    /\ Fresh

\* -------------------------------------------------------------- main()
Raise(e) == pc' = "raised" /\ err' = e

LoadConfig ==
    /\ pc = "load_config"
    /\ IF script = "Prices"
       THEN Raise("TypeError")      \* Config() takes no keyword 'interval'
       ELSE pc' = NextStep(script, "load_config") /\ UNCHANGED err
    /\ UNCHANGED << entry, script, log, payload, data, now, retain_days, file,
                    prior, prevOutcome, existing_data, existing_data_dict,
                    filtered_data, points, influx >>

Auth ==
    /\ pc = "auth"
    /\ \E error \in BOOLEAN :
         /\ pc' = OnResult(script, "auth", error)
         /\ log' = Append(log, IF error THEN "auth_fail" ELSE "auth_ok")
    /\ UNCHANGED << entry, script, err, payload, data, now, retain_days, file,
                    prior, prevOutcome, existing_data, existing_data_dict,
                    filtered_data, points, influx >>

Fetch ==
    /\ pc = "fetch"
    /\ \/ /\ pc' = OnResult(script, "fetch", TRUE)
          /\ log' = Append(log, "fetch_fail")
          /\ UNCHANGED payload
       \/ /\ pc' = OnResult(script, "fetch", FALSE)
          /\ log' = Append(log, "fetch_ok")
          /\ payload' \in Payloads
    /\ UNCHANGED << entry, script, err, data, now, retain_days, file, prior,
                    prevOutcome, existing_data, existing_data_dict,
                    filtered_data, points, influx >>

\* json.loads in main (RawJSON, Prices), then process_data (Prices).
Decode ==
    /\ pc = "decode"
    /\ pc' = OnResult(script, "decode", ~payload.valid)
    /\ log' = Append(log, IF payload.valid THEN "decode_ok" ELSE "decode_fail")
    /\ data' = IF ~payload.valid THEN data
               ELSE IF script = "Prices" THEN process_data(payload.reads)
               ELSE payload.reads
    /\ UNCHANGED << entry, script, err, payload, now, retain_days, file, prior,
                    prevOutcome, existing_data, existing_data_dict,
                    filtered_data, points, influx >>

\* ------------------------------------------- ElectricRawJSON.save_to_json
RawOpen ==
    /\ pc = "rj_open"
    /\ \/ /\ file' = File("invalid", <<>>)       \* 'w' truncates
          /\ log' = Append(log, "open_w")
          /\ pc' = "rj_dump"
          /\ UNCHANGED err
       \/ /\ Raise("OSError")
          /\ UNCHANGED << file, log >>
    /\ UNCHANGED << entry, script, payload, data, now, retain_days, prior,
                    prevOutcome, existing_data, existing_data_dict,
                    filtered_data, points, influx >>

RawDump ==
    /\ pc = "rj_dump"
    /\ \/ /\ file' = File("list", data)
          /\ pc' = "done"
          /\ UNCHANGED err
       \/ /\ Raise("OSError")
          /\ UNCHANGED file
    /\ UNCHANGED << entry, script, log, payload, data, now, retain_days, prior,
                    prevOutcome, existing_data, existing_data_dict,
                    filtered_data, points, influx >>

\* ----------------------------------- ElectricUsagewithPrices.save_to_json
\* Lines 137-141: read the prior snapshot.
SaveLoad ==
    /\ pc = "sj_load"
    /\ IF file.kind = "unreadable"
       THEN Raise("PermissionError") /\ UNCHANGED existing_data
       ELSE /\ existing_data' = IF file.kind \in CaughtOnLoad
                                THEN File("list", <<>>)
                                ELSE file
            /\ pc' = "sj_merge"
            /\ UNCHANGED err
    /\ UNCHANGED << entry, script, log, payload, data, now, retain_days, file,
                    prior, prevOutcome, existing_data_dict, filtered_data,
                    points, influx >>

\* Lines 146-149: key the prior entries, then overwrite with the batch.
SaveMerge ==
    /\ pc = "sj_merge"
    /\ IF existing_data.kind # "list"
       THEN Raise("TypeError") /\ UNCHANGED existing_data_dict
       ELSE IF \E i \in 1 .. Len(existing_data.entries) :
                  existing_data.entries[i].StartTime = NoKey
       THEN Raise("KeyError") /\ UNCHANGED existing_data_dict
       ELSE /\ existing_data_dict' =
                   DictUpdate(DictUpdate(<<>>, existing_data.entries), data)
            /\ pc' = "sj_filter"
            /\ UNCHANGED err
    /\ UNCHANGED << entry, script, log, payload, data, now, retain_days, file,
                    prior, prevOutcome, existing_data, filtered_data, points,
                    influx >>

\* Line 151: None >= datetime raises TypeError.
SaveFilter ==
    /\ pc = "sj_filter"
    /\ IF \E i \in 1 .. Len(existing_data_dict) :
            parse_datetime(existing_data_dict[i].StartTime) = None
       THEN Raise("TypeError") /\ UNCHANGED filtered_data
       ELSE /\ filtered_data' =
                   SelectSeq(existing_data_dict,
                             LAMBDA e : Retained(e, retention_cutoff(now, retain_days)))
            /\ pc' = "sj_open"
            /\ UNCHANGED err
    /\ UNCHANGED << entry, script, log, payload, data, now, retain_days, file,
                    prior, prevOutcome, existing_data, existing_data_dict,
                    points, influx >>

\* Line 153: open(output_file, 'w') truncates the file in place.
SaveOpen ==
    /\ pc = "sj_open"
    /\ \/ /\ file' = File("invalid", <<>>)
          /\ log' = Append(log, "open_w")
          /\ pc' = "sj_dump"
          /\ UNCHANGED err
       \/ /\ Raise("OSError")
          /\ UNCHANGED << file, log >>
    /\ UNCHANGED << entry, script, payload, data, now, retain_days, prior,
                    prevOutcome, existing_data, existing_data_dict,
                    filtered_data, points, influx >>

\* Line 154: json.dump into the open file.
SaveDump ==
    /\ pc = "sj_dump"
    /\ \/ /\ file' = File("list", filtered_data)
          /\ pc' = IF entry = "main" THEN "wp_write" ELSE "done"
          /\ UNCHANGED err
       \/ /\ Raise("OSError")
          /\ UNCHANGED file
    /\ UNCHANGED << entry, script, log, payload, data, now, retain_days, prior,
                    prevOutcome, existing_data, existing_data_dict,
                    filtered_data, points, influx >>

\* save_to_json called again with the same batch, window and clock; it
\* reads the file the previous call left.
Rerun ==
    /\ entry = "save_to_json"
    /\ pc \in {"done", "raised"}
    /\ pc' = "sj_load"
    /\ prevOutcome' = IF pc = "done" THEN "done" ELSE err
    /\ prior' = file
    /\ err' = "none"
    /\ log' = <<>>
    /\ existing_data' = File("list", <<>>)
    /\ existing_data_dict' = <<>>
    /\ filtered_data' = <<>>
    /\ UNCHANGED << entry, script, payload, data, now, retain_days, file,
                    points, influx >>

\* ------------------------------ ElectricRawDataInfluxDB.write_to_influxdb
\* Lines 106-110.
InfluxDecode ==
    /\ pc = "wi_decode"
    /\ pc' = OnResult(script, "wi_decode", ~payload.valid)
    /\ log' = Append(log, IF payload.valid THEN "decode_ok" ELSE "decode_fail")
    /\ UNCHANGED << entry, script, err, payload, data, now, retain_days, file,
                    prior, prevOutcome, existing_data, existing_data_dict,
                    filtered_data, points, influx >>

\* Lines 112-142: start_time / 1000 raises TypeError on a read with no start.
InfluxPoints ==
    /\ pc = "wi_points"
    /\ IF \E i \in 1 .. Len(payload.reads) : payload.reads[i].start = None
       THEN Raise("TypeError") /\ UNCHANGED points
       ELSE /\ points' = raw_points(payload.reads,
                                    retention_cutoff(now, retain_days))
            /\ pc' = "wi_write"
            /\ UNCHANGED err
    /\ UNCHANGED << entry, script, log, payload, data, now, retain_days, file,
                    prior, prevOutcome, existing_data, existing_data_dict,
                    filtered_data, influx >>

\* Lines 144-147.
InfluxWrite ==
    /\ pc = "wi_write"
    /\ IF points # <<>>
       THEN /\ influx' = Append(influx, points)
            /\ log' = Append(log, "influx_write")
       ELSE UNCHANGED << influx, log >>
    /\ pc' = "done"
    /\ UNCHANGED << entry, script, err, payload, data, now, retain_days, file,
                    prior, prevOutcome, existing_data, existing_data_dict,
                    filtered_data, points >>

\* ------------------------------ ElectricUsagewithPrices.write_to_influxdb
\* Lines 166-171: every row becomes a point, the batch is always written.
PricesWrite ==
    /\ pc = "wp_write"
    /\ points' = priced_points(data)
    /\ influx' = Append(influx, points')
    /\ log' = Append(log, "influx_write")
    /\ pc' = "done"
    /\ UNCHANGED << entry, script, err, payload, data, now, retain_days, file,
                    prior, prevOutcome, existing_data, existing_data_dict,
                    filtered_data >>

Next ==
    \/ LoadConfig \/ Auth \/ Fetch \/ Decode
    \/ RawOpen \/ RawDump
    \/ SaveLoad \/ SaveMerge \/ SaveFilter \/ SaveOpen \/ SaveDump \/ Rerun
    \/ InfluxDecode \/ InfluxPoints \/ InfluxWrite
    \/ PricesWrite

Spec == Init /\ [][Next]_vars

\* ============================================================ properties
InSave == entry = "save_to_json"
Cutoff == now - retain_days * SecPerDay
Keyed(rows) == \A i \in 1 .. Len(rows) : rows[i].StartTime # NoKey
Parseable(rows) ==
    \A i \in 1 .. Len(rows) : rows[i].StartTime.form \in {"canon", "alt"}
Occurs(e, rows) == \E i \in 1 .. Len(rows) : rows[i] = e
NoDuplicateKeys(rows) ==
    \A i, j \in 1 .. Len(rows) : rows[i].StartTime = rows[j].StartTime => i = j
MergeDone == InSave /\ pc \in {"sj_filter", "sj_open", "sj_dump", "done"}

\* C1: after the merge loop, for every timestamp key T of the incoming batch
\* the merged dict holds exactly one entry at T, and it is the last incoming
\* record with key T, whatever the prior snapshot held at T.
C1_LastWriteWins ==
    MergeDone =>
        \A i \in 1 .. Len(data) :
            (\A m \in (i + 1) .. Len(data) : data[m].StartTime # data[i].StartTime)
            => /\ Occurs(data[i], existing_data_dict)
               /\ \A n \in 1 .. Len(existing_data_dict) :
                     existing_data_dict[n].StartTime = data[i].StartTime
                     => existing_data_dict[n] = data[i]

\* The prior snapshot holds T with total 5, the batch carries T twice, with
\* totals 5 then 7, and the merged dict holds total 7 at T.
C1_Witness ==
    /\ MergeDone
    /\ pc = "done"
    /\ Len(data) = 2
    /\ data[1].StartTime = data[2].StartTime
    /\ data[1].Total = 5
    /\ data[2].Total = 7
    /\ Len(existing_data.entries) = 1
    /\ existing_data.entries[1].StartTime = data[1].StartTime
    /\ existing_data.entries[1].Total = 5
    /\ existing_data_dict = << data[2] >>

\* C2: when save_to_json has completed, the written snapshot holds exactly
\* the entries of the merged map whose instant is not before
\* now - retain_days: older entries are absent, one at the cutoff is kept.
C2_RetentionExact ==
    (InSave /\ pc = "done") =>
        /\ file.kind = "list"
        /\ \A i \in 1 .. Len(file.entries) :
              /\ parse_datetime(file.entries[i].StartTime) >= Cutoff
              /\ Occurs(file.entries[i], existing_data_dict)
        /\ \A n \in 1 .. Len(existing_data_dict) :
              parse_datetime(existing_data_dict[n].StartTime) >= Cutoff
              => Occurs(existing_data_dict[n], file.entries)

\* A completed call that kept an entry exactly at the cutoff and dropped an
\* older one.
C2_Witness ==
    /\ InSave
    /\ pc = "done"
    /\ \E i \in 1 .. Len(file.entries) :
          parse_datetime(file.entries[i].StartTime) = Cutoff
    /\ \E n \in 1 .. Len(existing_data_dict) :
          /\ parse_datetime(existing_data_dict[n].StartTime) < Cutoff
          /\ ~Occurs(existing_data_dict[n], file.entries)

\* C3: a completed call writes no two entries with the same timestamp key,
\* and a second completed call with the same batch, window and clock, reading
\* what the first wrote, leaves the snapshot as the first left it.
C3_Idempotent ==
    (InSave /\ pc = "done") =>
        /\ NoDuplicateKeys(file.entries)
        /\ prevOutcome = "done" => file = prior

\* The second of two completed calls, with a batch of which one record
\* survived and one was pruned.
C3_Witness ==
    /\ InSave
    /\ pc = "done"
    /\ prevOutcome = "done"
    /\ Len(data) = 2
    /\ Len(file.entries) >= 1
    /\ Occurs(data[2], file.entries)
    /\ ~Occurs(data[1], file.entries)
    /\ file = prior

\* C4: the entries save_to_json writes are in ascending order of instant.
C4_WrittenAscending ==
    (InSave /\ pc = "done") =>
        \A i, j \in 1 .. Len(file.entries) :
            i < j => parse_datetime(file.entries[i].StartTime)
                     <= parse_datetime(file.entries[j].StartTime)

\* C5: with a prior snapshot that is missing, unreadable or malformed,
\* save_to_json raises nothing while reading and merging, and what it writes
\* is the incoming batch alone, merged by key and pruned.
Malformed(f) == f.kind # "list" \/ ~Keyed(f.entries)
C5_CorruptSnapshotStartsFresh ==
    (InSave /\ prevOutcome = "none" /\ Malformed(prior)) =>
        /\ err \in {"none", "OSError"}
        /\ pc = "done" =>
              file = File("list",
                          SelectSeq(DictUpdate(<<>>, data),
                                    LAMBDA e : parse_datetime(e.StartTime) >= Cutoff))

\* C6: an entry whose 'Start Time' does not parse is dropped and the call
\* completes, writing every other in-window entry.
C6_UnparseableDropped ==
    (InSave /\ prevOutcome = "none" /\ prior.kind = "list" /\ Keyed(prior.entries)
       /\ ~Parseable(prior.entries)) =>
        /\ err \in {"none", "OSError"}
        /\ pc = "done" => Parseable(file.entries)

\* C7: with a snapshot persisted before the call, wherever the snapshot
\* write can fail or has failed the file holds the complete prior snapshot or
\* the complete new one.
NewSnapshot == File("list", IF script = "RawJSON" THEN data ELSE filtered_data)
C7_AtomicReplace ==
    (/\ prior.kind = "list"
     /\ prior.entries # <<>>
     /\ \/ pc \in {"sj_open", "sj_dump", "rj_open", "rj_dump"}
        \/ (pc = "raised" /\ err = "OSError"))
    => file \in {prior, NewSnapshot}

\* C8: in a run of main, every sink operation (the snapshot opened for
\* writing, a time-series write) comes after a successful auth, a successful
\* fetch and a successful JSON decode, in that order; a run in which one of
\* them failed has halted with the snapshot untouched and nothing written to
\* the time-series sink.
SinkOps == {"open_w", "influx_write"}
Failures == {"auth_fail", "fetch_fail", "decode_fail"}
C8_NoSinkBeforeDecode ==
    entry = "main" =>
        /\ \A i \in 1 .. Len(log) :
              log[i] \in SinkOps =>
                  \E a, f, d \in 1 .. Len(log) :
                      /\ a < f /\ f < d /\ d < i
                      /\ log[a] = "auth_ok"
                      /\ log[f] = "fetch_ok"
                      /\ log[d] = "decode_ok"
        /\ (\E i \in 1 .. Len(log) : log[i] \in Failures) =>
              /\ pc = "halted"
              /\ \A i \in 1 .. Len(log) : log[i] \notin SinkOps
              /\ file = prior
              /\ influx = <<>>

\* A run that authenticated and fetched, got a body that is not JSON, and
\* halted.
C8_Witness ==
    /\ entry = "main"
    /\ pc = "halted"
    /\ log = << "auth_ok", "fetch_ok", "decode_fail" >>
    /\ file = prior
    /\ influx = <<>>

\* C9: every batch handed to the time-series sink holds no point older than
\* the retention cutoff, and holds one point for each input record at or
\* after the cutoff, in input order.
PointInstant(p) ==
    IF script = "Prices" THEN parse_datetime(p.time) ELSE p.time \div 1000
InputInstants ==
    IF script = "Prices"
    THEN [i \in 1 .. Len(data) |-> parse_datetime(data[i].StartTime)]
    ELSE [i \in 1 .. Len(payload.reads) |-> payload.reads[i].start \div 1000]
BatchInstants(b) == [i \in 1 .. Len(influx[b]) |-> PointInstant(influx[b][i])]
C9_NoPointBeforeCutoff ==
    \A b \in 1 .. Len(influx) :
        /\ \A i \in 1 .. Len(influx[b]) : PointInstant(influx[b][i]) >= Cutoff
        /\ BatchInstants(b) = SelectSeq(InputInstants, LAMBDA t : t >= Cutoff)

\* C10: no write call is issued with an empty batch.
C10_NoEmptyBatch == \A b \in 1 .. Len(influx) : influx[b] # <<>>

====
